---- MODULE Spec2Model ----
(***************************************************************************)
(* Hospital distribution on a grid: constrained random placement of        *)
(* hospitals and houses, followed by local-search optimisation of the      *)
(* hospital positions (Matriz_casa_hospital/profundisacion.py and          *)
(* Matriz_casa_hospital/profundizacion.py, whose HospitalDistribution      *)
(* classes are identical and whose GUI.start_simulation handlers differ).  *)
(*                                                                         *)
(* Coordinate defines neither __eq__ nor __hash__, so the Python sets      *)
(* `hospitals` and `houses` hold objects by identity: two Coordinate       *)
(* objects with equal x and y are two members.  They are modelled as bags  *)
(* of <<x, y>> pairs: add() of a fresh object adds one copy, remove() of   *)
(* an object takes one copy away, len() is the bag's cardinality.          *)
(***************************************************************************)
EXTENDS Integers, FiniteSets, Sequences, Bags, TLC

\* Bounds of the inputs typed into the GUI's entry fields.
MaxRows == 3
MaxCols == 4
MaxCells == 9
MaxHospitals == 2
MaxHouses == 2

\* The grid sizes and counts that are entered
GridInputs ==
    {rc \in (0 .. MaxRows) \X (0 .. MaxCols) : rc[1] * rc[2] <= MaxCells}
CountInputs == (0 .. MaxHospitals) \X (0 .. MaxHouses)

\* self.MIN_HOSPITAL_DISTANCE
MIN_HOSPITAL_DISTANCE == 3

\* float('inf'), the initial min_distance of _calculate_score; larger than
\* any sum of Manhattan distances the bounded grids can produce.
Inf == 1000000

\* Python's None (best_new_pos, and locals that are out of scope).
None == <<>>

VARIABLES
    pc,             \* position of the program
    err,            \* the error outcome, "none" while there is none
    rows, cols, num_hospitals, num_houses,
    grid,           \* self.grid: cell -> 0 (empty), 1 (house), 2 (hospital)
    hospitals,      \* self.hospitals, a bag of coordinates
    houses,         \* self.houses, a bag of coordinates
    new_pos,        \* local new_pos: last sampled cell / tentative candidate
    best_score, improved, todo, old_pos, best_new_pos, dir,
    pre,            \* history: hospitals, houses and grid when the call began
    relocated,      \* history: the current call committed a relocation
    last_sweep,     \* history: "none" before the call's first sweep, then
                    \* "moved" if the latest sweep relocated, else "clean"
    converged,      \* history: some call has returned with zero relocations
    conv_at_start,  \* history: the current call began after convergence
    sweep_start,    \* history: the hospitals when the current sweep began
    scanned,        \* history: the hospitals the current sweep has scanned
    moved           \* history: the <<from, to>> relocations of the current sweep

vars == <<pc, err, rows, cols, num_hospitals, num_houses, grid, hospitals,
          houses, new_pos, best_score, improved, todo, old_pos, best_new_pos,
          dir, pre, relocated, last_sweep, converged, conv_at_start,
          sweep_start, scanned, moved>>

config == <<rows, cols, num_hospitals, num_houses>>
locals == <<best_score, improved, todo, old_pos, best_new_pos, dir>>
sweep_history == <<sweep_start, scanned, moved>>
history == <<pre, relocated, last_sweep, converged, conv_at_start,
             sweep_history>>

----------------------------------------------------------------------------
\* Coordinate and the pure helpers

Abs(n) == IF n < 0 THEN -n ELSE n

\* Coordinate.distance_to
distance_to(a, b) == Abs(a[1] - b[1]) + Abs(a[2] - b[2])

\* The cells of a grid built by [[0 for _ in range(cols)] for _ in range(rows)]
Cells(r, c) == (0 .. r - 1) \X (0 .. c - 1)

One(p) == SetToBag({p})

\* len(self.hospitals), len(self.houses)
Size(b) == BagCardinality(b)

\* A list index as Python resolves it: a negative index counts from the end
PyIndex(i, n) == IF i < 0 THEN i + n ELSE i

\* The cell that self.grid[pos.x][pos.y] reads or writes
Cell(pos) == <<PyIndex(pos[1], rows), PyIndex(pos[2], cols)>>

\* random.randint(-1, n - 1) (the lower end off by one)
SampleRangeFromMinusOne(n) == -1 .. n - 1

\* The values random.randint(0, n - 1) draws
SampleRange(n) == 0 .. n - 1

\* The range check of optimize_distribution on a candidate cell
InBounds(x, y) == 0 <= x /\ x < rows /\ 0 <= y /\ y < cols

\* _is_valid_hospital_position without the distance loop (a plausible slip)
IsValidNoDistance(g, hs, pos) == g[Cell(pos)] = 0

\* _is_valid_hospital_position with the spacing test one unit too weak
IsValidOneCloser(g, hs, pos) ==
    IF g[Cell(pos)] # 0
    THEN FALSE
    ELSE \A h \in BagToSet(hs) : ~(distance_to(pos, h) < MIN_HOSPITAL_DISTANCE - 1)

\* _is_valid_hospital_position without the test of the cell
IsValidAnyCell(g, hs, pos) ==
    \A h \in BagToSet(hs) : ~(distance_to(pos, h) < MIN_HOSPITAL_DISTANCE)

\* _is_valid_hospital_position
IsValidHospitalPosition(g, hs, pos) ==
    IF g[Cell(pos)] # 0
    THEN FALSE
    ELSE \A h \in BagToSet(hs) : ~(distance_to(pos, h) < MIN_HOSPITAL_DISTANCE)

\* The house loop's test, dropped
HouseCellAny(g, pos) == TRUE

\* The house loop's test: self.grid[x][y] == 0
HouseCellFree(g, pos) == g[Cell(pos)] = 0

\* The inner loop taking the first hospital's distance instead of the least
MinDistanceFirst(house, hs, acc) ==
    IF hs = {} THEN acc ELSE distance_to(house, CHOOSE e \in hs : TRUE)

RECURSIVE MinDistance(_, _, _)
\* The inner loop of _calculate_score: min_distance over the hospitals
MinDistance(house, hs, acc) ==
    IF hs = {}
    THEN acc
    ELSE LET h == CHOOSE e \in hs : TRUE
             d == distance_to(house, h)
         IN  MinDistance(house, hs \ {h}, IF d < acc THEN d ELSE acc)

\* total_distance += min_distance, where inf absorbs
AddDistance(total, d) == IF total = Inf \/ d = Inf THEN Inf ELSE total + d

RECURSIVE SumHouses(_, _, _)
\* The outer loop of _calculate_score, over the members of houses
SumHouses(kbag, hs, total) ==
    IF kbag = EmptyBag
    THEN total
    ELSE LET k == CHOOSE e \in BagToSet(kbag) : TRUE
         IN  SumHouses(kbag (-) One(k), hs,
                       AddDistance(total, MinDistance(k, hs, Inf)))

\* _calculate_score
CalculateScore(hs, ks) == SumHouses(ks, BagToSet(hs), 0)

\* new_score > best_score (the comparison reversed)
ImprovesReversed(new_score, best) == new_score > best

\* new_score <= best_score (the comparison weakened)
ImprovesOrEqual(new_score, best) == new_score <= best

\* new_score < best_score
Improves(new_score, best) == new_score < best

\* for dx in [-1, 0] (a direction missing)
OffsetsShort == <<-1, 0, 0>>

\* for dx in [-1, 0, 1]: / for dy in [-1, 0, 1]:
Offsets == <<-1, 0, 1>>

\* The candidate of direction index d (dx outer, dy inner)
Candidate(old, d) ==
    <<old[1] + Offsets[(d \div 3) + 1], old[2] + Offsets[(d % 3) + 1]>>

\* The restore of old_pos's cell forgotten
RestoreGridForgotten(g, old) == g

\* self.grid[old_pos.x][old_pos.y] = 2 after a candidate was tried
RestoreGrid(g, old) == [g EXCEPT ![Cell(old)] = 2]

\* The restore of old_pos in the set forgotten
RestoreHospitalsForgotten(hs, old) == hs

\* self.hospitals.add(old_pos) after a candidate was tried
RestoreHospitals(hs, old) == hs (+) One(old)

\* The commit that leaves the old cell marked
CommitGridKeepOld(g, old, new) == [g EXCEPT ![Cell(new)] = 2]

\* The commit's grid writes: old cell 0, then new cell 2
CommitGrid(g, old, new) ==
    [[g EXCEPT ![Cell(old)] = 0] EXCEPT ![Cell(new)] = 2]

\* The commit's set updates: remove(old_pos), add(best_new_pos)
CommitHospitals(hs, old, new) == (hs (-) One(old)) (+) One(new)

\* best_score = float('inf') (the score of the model not taken)
InitialBestInf(hs, ks) == Inf

\* best_score = self._calculate_score() on entry
InitialBest(hs, ks) == CalculateScore(hs, ks)

\* The loop running over the live set: a committed position joins it
LiveAfterCommit(t, new) == t (+) One(new)

\* list(self.hospitals) is a copy: a commit leaves the rest of the loop alone
SnapshotAfterCommit(t, new) == t

\* The loop left after its first hospital
RemainingNone(t, h) == EmptyBag

\* The for loop over list(self.hospitals) moving on to the next element
Remaining(t, h) == t (-) One(h)

----------------------------------------------------------------------------
Init ==
    /\ pc = "gui"
    /\ err = "none"
    /\ rows = 0 /\ cols = 0 /\ num_hospitals = 0 /\ num_houses = 0
    /\ grid = [c \in {} |-> 0]
    /\ hospitals = EmptyBag
    /\ houses = EmptyBag
    /\ new_pos = None
    /\ best_score = 0 /\ improved = FALSE /\ todo = EmptyBag
    /\ old_pos = None /\ best_new_pos = None /\ dir = 0
    /\ pre = [hospitals |-> EmptyBag, houses |-> EmptyBag, grid |-> [c \in {} |-> 0]]
    /\ relocated = FALSE /\ last_sweep = "none"
    /\ converged = FALSE /\ conv_at_start = FALSE
    /\ sweep_start = EmptyBag /\ scanned = EmptyBag /\ moved = {}

\* HospitalDistribution.__init__
Construct(r, c, nh, nk) ==
    /\ rows' = r /\ cols' = c /\ num_hospitals' = nh /\ num_houses' = nk
    /\ grid' = [cell \in Cells(r, c) |-> 0]
    /\ hospitals' = EmptyBag
    /\ houses' = EmptyBag

\* GUI.start_simulation of profundisacion.py: counts <= 0 are refused
StartSimulationChecked(r, c, nh, nk) ==
    /\ pc = "gui"
    /\ IF nh <= 0 \/ nk <= 0
       THEN /\ pc' = "error"
            /\ err' = "NumbersMustBePositive"
            /\ rows' = r /\ cols' = c /\ num_hospitals' = nh /\ num_houses' = nk
            /\ UNCHANGED <<grid, hospitals, houses>>
       ELSE /\ Construct(r, c, nh, nk)
            /\ pc' = "place_hospitals"
            /\ err' = "none"
    /\ UNCHANGED <<new_pos, locals, history>>

\* GUI.start_simulation of profundizacion.py: no check
StartSimulationUnchecked(r, c, nh, nk) ==
    /\ pc = "gui"
    /\ Construct(r, c, nh, nk)
    /\ pc' = "place_hospitals"
    /\ UNCHANGED <<err, new_pos, locals, history>>

\* `while len(self.hospitals) < self.num_hospitals`: the loop's test
WhileHospitals ==
    /\ pc = "place_hospitals"
    /\ IF Size(hospitals) < num_hospitals
       THEN pc' = "sample_hospital" /\ UNCHANGED new_pos
       ELSE pc' = "place_houses" /\ new_pos' = None
    /\ UNCHANGED <<err, config, grid, hospitals, houses, locals, history>>

\* The body of the hospital loop with (x, y) drawn by random.randint
SampleHospital(x, y) ==
    /\ pc = "sample_hospital"
    /\ rows > 0 /\ cols > 0
    /\ x \in SampleRange(rows) /\ y \in SampleRange(cols)
    /\ new_pos' = <<x, y>>
    /\ IF IsValidHospitalPosition(grid, hospitals, <<x, y>>)
       THEN /\ hospitals' = hospitals (+) One(<<x, y>>)
            /\ grid' = [grid EXCEPT ![Cell(<<x, y>>)] = 2]
       ELSE UNCHANGED <<grid, hospitals>>
    /\ pc' = "place_hospitals"
    /\ UNCHANGED <<err, config, houses, locals, history>>

\* `while len(self.houses) < self.num_houses`: the loop's test; when the
\* loop ends, initialize_random_positions returns, draw_grid divides 500 by
\* cols and by rows, and optimize_step is scheduled.
WhileHouses ==
    /\ pc = "place_houses"
    /\ IF Size(houses) < num_houses
       THEN pc' = "sample_house" /\ UNCHANGED <<err, new_pos>>
       ELSE /\ new_pos' = None
            /\ IF cols = 0 \/ rows = 0
               THEN pc' = "error" /\ err' = "ZeroDivisionError"
               ELSE pc' = "scheduled" /\ err' = err
    /\ UNCHANGED <<config, grid, hospitals, houses, locals, history>>

\* The body of the house loop with (x, y) drawn by random.randint
SampleHouse(x, y) ==
    /\ pc = "sample_house"
    /\ rows > 0 /\ cols > 0
    /\ x \in SampleRange(rows) /\ y \in SampleRange(cols)
    /\ new_pos' = <<x, y>>
    /\ IF HouseCellFree(grid, <<x, y>>)
       THEN /\ houses' = houses (+) One(<<x, y>>)
            /\ grid' = [grid EXCEPT ![Cell(<<x, y>>)] = 1]
       ELSE UNCHANGED <<grid, houses>>
    /\ pc' = "place_houses"
    /\ UNCHANGED <<err, config, hospitals, locals, history>>

\* random.randint(0, n - 1) raises ValueError when n <= 0, in either loop
RandintRaises ==
    /\ pc \in {"sample_hospital", "sample_house"}
    /\ rows <= 0 \/ cols <= 0
    /\ pc' = "error"
    /\ err' = "ValueError"
    /\ UNCHANGED <<config, grid, hospitals, houses, new_pos, locals, history>>

\* optimize_distribution is entered: best_score and improved are set
OptimizeCall ==
    /\ pc \in {"scheduled", "returned"}
    /\ best_score' = InitialBest(hospitals, houses)
    /\ improved' = TRUE
    /\ pc' = "opt_while"
    /\ pre' = [hospitals |-> hospitals, houses |-> houses, grid |-> grid]
    /\ relocated' = FALSE
    /\ last_sweep' = "none"
    /\ conv_at_start' = converged
    /\ UNCHANGED <<err, config, grid, hospitals, houses, new_pos, todo,
                   old_pos, best_new_pos, dir, converged, sweep_history>>

\* `while improved`: a new sweep over list(self.hospitals), or the return
WhileImproved ==
    /\ pc = "opt_while"
    /\ IF improved
       THEN /\ improved' = FALSE
            /\ todo' = hospitals
            /\ last_sweep' = "clean"
            /\ sweep_start' = hospitals
            /\ scanned' = EmptyBag
            /\ moved' = {}
            /\ pc' = "opt_for"
            /\ UNCHANGED <<best_score, converged>>
       ELSE /\ pc' = "returned"
            /\ converged' = (converged \/ ~relocated)
            /\ best_score' = 0
            /\ todo' = EmptyBag
            /\ sweep_start' = EmptyBag
            /\ scanned' = EmptyBag
            /\ moved' = {}
            /\ UNCHANGED <<improved, last_sweep>>
    /\ UNCHANGED <<err, config, grid, hospitals, houses, new_pos, old_pos,
                   best_new_pos, dir, pre, relocated, conv_at_start>>

\* `for hospital in list(self.hospitals)`: the next hospital of the snapshot,
\* in the set's iteration order, which identity hashing leaves arbitrary
ForHospital ==
    /\ pc = "opt_for"
    /\ IF todo # EmptyBag
       THEN \E h \in BagToSet(todo) :
            /\ old_pos' = h
            /\ best_new_pos' = None
            /\ dir' = 0
            /\ todo' = Remaining(todo, h)
            /\ scanned' = scanned (+) One(h)
            /\ pc' = "opt_dir"
       ELSE /\ pc' = "opt_while"
            /\ old_pos' = None
            /\ best_new_pos' = None
            /\ dir' = 0
            /\ UNCHANGED <<todo, scanned>>
    /\ UNCHANGED <<err, config, grid, hospitals, houses, new_pos, best_score,
                   improved, pre, relocated, last_sweep, converged,
                   conv_at_start, sweep_start, moved>>

\* One direction (dx, dy): the range check, the tentative removal of old_pos
\* and the validity test of the candidate; a valid candidate is placed
TryDirection ==
    /\ pc = "opt_dir"
    /\ dir < 9
    /\ LET cand == Candidate(old_pos, dir) IN
       IF ~InBounds(cand[1], cand[2])
       THEN /\ dir' = dir + 1
            /\ UNCHANGED <<pc, err, grid, hospitals, new_pos>>
       ELSE IF ~BagIn(old_pos, hospitals)
       THEN /\ pc' = "error"
            /\ err' = "KeyError"
            /\ UNCHANGED <<grid, hospitals, new_pos, dir>>
       ELSE LET hs1 == hospitals (-) One(old_pos)
                g1 == [grid EXCEPT ![Cell(old_pos)] = 0]
            IN  IF IsValidHospitalPosition(g1, hs1, cand)
                THEN /\ hospitals' = hs1 (+) One(cand)
                     /\ grid' = [g1 EXCEPT ![Cell(cand)] = 2]
                     /\ new_pos' = cand
                     /\ pc' = "opt_placed"
                     /\ UNCHANGED <<err, dir>>
                ELSE /\ hospitals' = RestoreHospitals(hs1, old_pos)
                     /\ grid' = RestoreGrid(g1, old_pos)
                     /\ dir' = dir + 1
                     /\ UNCHANGED <<pc, err, new_pos>>
    /\ UNCHANGED <<config, houses, best_score, improved, todo, old_pos,
                   best_new_pos, history>>

\* The placed candidate is scored, recorded if it improves, and reverted
Evaluate ==
    /\ pc = "opt_placed"
    /\ LET new_score == CalculateScore(hospitals, houses) IN
       IF Improves(new_score, best_score)
       THEN /\ best_score' = new_score
            /\ best_new_pos' = new_pos
            /\ improved' = TRUE
       ELSE UNCHANGED <<best_score, best_new_pos, improved>>
    /\ hospitals' = RestoreHospitals(hospitals (-) One(new_pos), old_pos)
    /\ grid' = RestoreGrid([grid EXCEPT ![Cell(new_pos)] = 0], old_pos)
    /\ new_pos' = None
    /\ dir' = dir + 1
    /\ pc' = "opt_dir"
    /\ UNCHANGED <<err, config, houses, todo, old_pos, history>>

\* `if best_new_pos`: the best move found for this hospital is made;
\* remove(old_pos) raises KeyError if old_pos is no member
Commit ==
    /\ pc = "opt_dir"
    /\ dir = 9
    /\ IF best_new_pos = None
       THEN /\ pc' = "opt_for"
            /\ UNCHANGED <<err, hospitals, grid, todo, relocated, last_sweep,
                           moved>>
       ELSE IF ~BagIn(old_pos, hospitals)
       THEN /\ pc' = "error"
            /\ err' = "KeyError"
            /\ UNCHANGED <<hospitals, grid, todo, relocated, last_sweep, moved>>
       ELSE /\ hospitals' = CommitHospitals(hospitals, old_pos, best_new_pos)
            /\ grid' = CommitGrid(grid, old_pos, best_new_pos)
            /\ todo' = SnapshotAfterCommit(todo, best_new_pos)
            /\ relocated' = TRUE
            /\ last_sweep' = "moved"
            /\ moved' = moved \cup {<<old_pos, best_new_pos>>}
            /\ pc' = "opt_for"
            /\ UNCHANGED err
    /\ UNCHANGED <<config, houses, new_pos, best_score, improved, old_pos,
                   best_new_pos, dir, pre, converged, conv_at_start,
                   sweep_start, scanned>>

Next ==
    \/ \E rc \in GridInputs, n \in CountInputs :
          StartSimulationChecked(rc[1], rc[2], n[1], n[2])
    \/ \E rc \in GridInputs, n \in CountInputs :
          StartSimulationUnchecked(rc[1], rc[2], n[1], n[2])
    \/ WhileHospitals
    \* the draws are the members of SampleRange, which the actions test
    \/ \E x \in -1 .. MaxRows, y \in -1 .. MaxCols : SampleHospital(x, y)
    \/ WhileHouses
    \/ \E x \in -1 .. MaxRows, y \in -1 .. MaxCols : SampleHouse(x, y)
    \/ RandintRaises
    \/ OptimizeCall
    \/ WhileImproved
    \/ ForHospital
    \/ TryDirection
    \/ Evaluate
    \/ Commit

Spec == Init /\ [][Next]_vars

\* The steps of the code of a handler that has been entered
Running ==
    \/ WhileHospitals
    \* the draws are the members of SampleRange, which the actions test
    \/ \E x \in -1 .. MaxRows, y \in -1 .. MaxCols : SampleHospital(x, y)
    \/ WhileHouses
    \/ \E x \in -1 .. MaxRows, y \in -1 .. MaxCols : SampleHouse(x, y)
    \/ RandintRaises
    \/ WhileImproved
    \/ ForHospital
    \/ TryDirection
    \/ Evaluate
    \/ Commit

\* The interpreter runs the handler it is in without pause: a step of the
\* running code that can be taken is taken.  Nothing obliges the user to
\* start a simulation or the driver to call the optimizer again.
FairSpec == Init /\ [][Next]_vars /\ WF_vars(Running)

----------------------------------------------------------------------------
\* The model is at rest: initialize_random_positions has returned and no
\* optimize_distribution call is running
AtRest == pc \in {"scheduled", "returned"}

\* The members of a bag lie at distinct coordinates
DistinctCoordinates(b) == \A p \in BagToSet(b) : b[p] = 1

\* The grid cells
GridCells == Cells(rows, cols)

\* C1: at rest (after initialisation and after any number of
\* optimize_distribution calls) every two distinct hospitals are at
\* Manhattan distance >= MIN_HOSPITAL_DISTANCE.
C1_HospitalSpacing ==
    AtRest =>
        /\ DistinctCoordinates(hospitals)
        /\ \A a \in BagToSet(hospitals), b \in BagToSet(hospitals) :
              a # b => distance_to(a, b) >= MIN_HOSPITAL_DISTANCE

\* A call that relocated a hospital has returned with two hospitals exactly
\* MIN_HOSPITAL_DISTANCE apart.
C1_Witness ==
    /\ pc = "returned"
    /\ relocated
    /\ \E a \in BagToSet(hospitals), b \in BagToSet(hospitals) :
          a # b /\ distance_to(a, b) = MIN_HOSPITAL_DISTANCE

\* C2: at rest no coordinate is both a hospital and a house, and a cell
\* holds 2 exactly when a hospital is there, 1 exactly when a house is
\* there, and 0 otherwise.
C2_GridAgreesWithSets ==
    AtRest =>
        /\ BagToSet(hospitals) \cap BagToSet(houses) = {}
        /\ BagToSet(hospitals) \cup BagToSet(houses) \subseteq GridCells
        /\ \A c \in GridCells :
              /\ grid[c] = 2 <=> c \in BagToSet(hospitals)
              /\ grid[c] = 1 <=> c \in BagToSet(houses)
              /\ grid[c] = 0 <=> c \notin BagToSet(hospitals) \cup BagToSet(houses)

\* A call that relocated a hospital has returned, with a house on the grid.
C2_Witness ==
    /\ pc = "returned"
    /\ relocated
    /\ hospitals # pre.hospitals
    /\ houses # EmptyBag

C4_ScoreNotIncreased ==
    pc = "returned" =>
        CalculateScore(hospitals, houses) <= CalculateScore(pre.hospitals, pre.houses)

\* A call has returned with a strictly lower score.
C4_Witness ==
    /\ pc = "returned"
    /\ CalculateScore(hospitals, houses) < CalculateScore(pre.hospitals, pre.houses)

\* An optimize_distribution call is running
InOptimize == pc \in {"opt_while", "opt_for", "opt_dir", "opt_placed"}

\* C5: every optimize_distribution call returns, and it returns after a
\* sweep that relocated no hospital.
C5_OptimizeTerminates ==
    /\ InOptimize ~> (pc = "returned")
    /\ [](pc = "returned" => last_sweep = "clean")

\* A call has returned after more than one sweep: an earlier sweep relocated
\* a hospital and the last one did not.
C5_Witness ==
    /\ pc = "returned"
    /\ relocated
    /\ last_sweep = "clean"

\* The cells one row and one column at most away from h (h included)
Neighbourhood(h) ==
    {c \in GridCells : Abs(c[1] - h[1]) <= 1 /\ Abs(c[2] - h[2]) <= 1}

\* Hospital h of hs may stand at c: c is empty once h is removed and at
\* distance >= MIN_HOSPITAL_DISTANCE from every other hospital
MayMoveTo(hs, g, h, c) ==
    /\ [g EXCEPT ![h] = 0][c] = 0
    /\ \A o \in BagToSet(hs (-) One(h)) :
          distance_to(c, o) >= MIN_HOSPITAL_DISTANCE

\* The score with hospital h moved to c
ScoreMoved(hs, ks, h, c) == CalculateScore((hs (-) One(h)) (+) One(c), ks)

\* No one-step relocation of one hospital lowers the score
LocalOptimum(hs, ks, g) ==
    \A h \in BagToSet(hs) : \A c \in Neighbourhood(h) :
        MayMoveTo(hs, g, h, c) =>
            ScoreMoved(hs, ks, h, c) >= CalculateScore(hs, ks)

\* Some hospital has a cell other than its own to which it may move
SomeMovePossible(hs, g) ==
    \E h \in BagToSet(hs) : \E c \in Neighbourhood(h) \ {h} :
        MayMoveTo(hs, g, h, c)

\* C6: when optimize_distribution returns, no hospital has an in-bounds
\* neighbour cell, empty once the hospital is removed and at distance >= 3
\* from every other hospital, where the score would be strictly lower.
C6_LocalOptimumAtReturn ==
    pc = "returned" => LocalOptimum(hospitals, houses, grid)

\* A call that relocated a hospital has returned, and a hospital could still
\* move (to no better score).
C6_Witness ==
    /\ pc = "returned"
    /\ relocated
    /\ SomeMovePossible(hospitals, grid)

\* C7: a call that begins after some call made zero relocations makes zero
\* relocations itself, and returns with the hospitals, the grid and the
\* score it began with.
C7_ConvergedIsNoOp ==
    conv_at_start =>
        /\ ~relocated
        /\ pc = "returned" =>
              /\ hospitals = pre.hospitals
              /\ grid = pre.grid
              /\ CalculateScore(hospitals, houses)
                    = CalculateScore(pre.hospitals, pre.houses)

\* A further call on a converged model has returned, with two hospitals, a
\* house, and a hospital that could still move.
C7_Witness ==
    /\ conv_at_start
    /\ pc = "returned"
    /\ Size(hospitals) = 2
    /\ houses # EmptyBag
    /\ SomeMovePossible(hospitals, grid)

\* The grid cannot hold num_hospitals hospitals pairwise at distance
\* >= MIN_HOSPITAL_DISTANCE
Infeasible ==
    ~ \E S \in SUBSET GridCells :
        /\ Cardinality(S) = num_hospitals
        /\ \A a \in S, b \in S :
              a # b => distance_to(a, b) >= MIN_HOSPITAL_DISTANCE

\* C8: when the grid cannot hold the requested hospitals at the minimum
\* spacing, initialize_random_positions ends in an error outcome.
C8_InfeasibleEndsInError ==
    (pc = "place_hospitals" /\ Infeasible) ~> (pc = "error")

\* A count or a dimension is not positive, or the counts exceed the cells
InvalidConfiguration ==
    \/ rows <= 0 \/ cols <= 0 \/ num_hospitals <= 0 \/ num_houses <= 0
    \/ num_hospitals + num_houses > rows * cols

\* C9: an invalid configuration is rejected before placement begins: no
\* hospital or house is added, no cell is marked, and the model never
\* becomes initialized.
C9_InvalidConfigurationRejected ==
    (pc # "gui" /\ InvalidConfiguration) =>
        /\ hospitals = EmptyBag
        /\ houses = EmptyBag
        /\ \A c \in DOMAIN grid : grid[c] = 0
        /\ ~AtRest /\ ~InOptimize

\* C10: a call that begins where no hospital has a valid, strictly improving
\* neighbour candidate returns with hospitals, houses and every grid cell
\* as they were when it began.
C10_NoMoveIsNoOp ==
    (pc = "returned" /\ LocalOptimum(pre.hospitals, pre.houses, pre.grid)) =>
        /\ hospitals = pre.hospitals
        /\ houses = pre.houses
        /\ grid = pre.grid

\* The first call on a freshly initialized model has returned; the model
\* was already a local optimum although a hospital could move.
C10_Witness ==
    /\ pc = "returned"
    /\ ~conv_at_start
    /\ LocalOptimum(pre.hospitals, pre.houses, pre.grid)
    /\ SomeMovePossible(pre.hospitals, pre.grid)
    /\ houses # EmptyBag

\* The least Manhattan distance from house k to a hospital of the set hs
NearestDistance(k, hs) ==
    CHOOSE d \in {Abs(k[1] - h[1]) + Abs(k[2] - h[2]) : h \in hs} :
        \A h \in hs : d <= Abs(k[1] - h[1]) + Abs(k[2] - h[2])

RECURSIVE SumOfNearest(_, _)
\* The sum over the houses of the bag ks of their least distance to hs
SumOfNearest(ks, hs) ==
    IF ks = EmptyBag
    THEN 0
    ELSE LET k == CHOOSE e \in BagToSet(ks) : TRUE
         IN  ks[k] * NearestDistance(k, hs) + SumOfNearest(ks (-) SetToBag({k}), hs)

\* C11: with at least one hospital, _calculate_score is the sum over the
\* houses of the least Manhattan distance to a hospital, and it is the
\* value best_score takes on entry; with no houses it is 0 and the call
\* relocates nothing; for one hospital at (0,0) and one house at (4,4) it
\* is 8.
C11_ScoreIsSumOfNearest ==
    /\ hospitals # EmptyBag =>
          /\ CalculateScore(hospitals, houses)
                = SumOfNearest(houses, BagToSet(hospitals))
          /\ (pc = "opt_while" /\ last_sweep = "none") =>
                best_score = SumOfNearest(houses, BagToSet(hospitals))
    /\ houses = EmptyBag =>
          /\ CalculateScore(hospitals, houses) = 0
          /\ ~relocated
    /\ CalculateScore(SetToBag({<<0, 0>>}), SetToBag({<<4, 4>>})) = 8

\* optimize_distribution has just taken the score of two hospitals and two
\* houses, the houses being nearest to different hospitals.
C11_Witness ==
    /\ pc = "opt_while"
    /\ last_sweep = "none"
    /\ Size(hospitals) = 2
    /\ Size(houses) = 2
    /\ best_score > 0
    /\ \E k1 \in BagToSet(houses), k2 \in BagToSet(houses) :
       \E h1 \in BagToSet(hospitals), h2 \in BagToSet(hospitals) :
          /\ distance_to(k1, h1) < distance_to(k1, h2)
          /\ distance_to(k2, h2) < distance_to(k2, h1)

\* Whenever optimize_distribution is about to remove old_pos or new_pos from
\* hospitals the object is a member, every cell whose grid entry it reads or
\* writes lies in [0, rows) x [0, cols), and no KeyError outcome is reached
NoFailingStep ==
    /\ err # "KeyError"
    /\ InOptimize => pc # "error"
    /\ pc = "opt_dir" =>
          /\ BagIn(old_pos, hospitals)
          /\ old_pos \in GridCells
          /\ best_new_pos # None => best_new_pos \in GridCells
          /\ dir < 9 =>
                LET cand == Candidate(old_pos, dir)
                IN  InBounds(cand[1], cand[2]) => cand \in GridCells
    /\ pc = "opt_placed" =>
          /\ BagIn(new_pos, hospitals)
          /\ new_pos \in GridCells
          /\ old_pos \in GridCells

\* C12: optimize_distribution never fails: every remove it executes targets
\* a member of hospitals, every grid access is inside
\* [0, rows) x [0, cols), and every call returns.
C12_OptimizeNeverFails ==
    /\ []NoFailingStep
    /\ InOptimize ~> (pc = "returned" /\ err # "KeyError")

\* The scan of one of two hospitals has tried all nine directions, removing
\* and restoring the hospital each time, and is about to commit a move.
C12_Witness ==
    /\ pc = "opt_dir"
    /\ dir = 9
    /\ best_new_pos # None
    /\ Size(hospitals) = 2
    /\ err = "none"

\* C13: at rest every hospital and every house coordinate (x, y) satisfies
\* 0 <= x < rows and 0 <= y < cols.
C13_CoordinatesInBounds ==
    AtRest =>
        \A p \in BagToSet(hospitals) \cup BagToSet(houses) :
            /\ 0 <= p[1] /\ p[1] < rows
            /\ 0 <= p[2] /\ p[2] < cols

\* A call has returned after moving a hospital onto the last row or the
\* last column of the grid, with a house placed.
C13_Witness ==
    /\ pc = "returned"
    /\ houses # EmptyBag
    /\ \E m \in BagToSet(hospitals) :
          /\ m \notin BagToSet(pre.hospitals)
          /\ m[1] = rows - 1 \/ m[2] = cols - 1

\* The cell of direction d in the enumeration dx in -1, 0, 1 (outer),
\* dy in -1, 0, 1 (inner)
DirCell(h, d) == <<h[1] + (d \div 3) - 1, h[2] + (d % 3) - 1>>

\* The directions whose cell is a valid candidate for hospital h
ValidDirs(h) ==
    {d \in 0 .. 8 : /\ DirCell(h, d) \in GridCells
                    /\ MayMoveTo(hospitals, grid, h, DirCell(h, d))}

\* The valid directions of h that score strictly below the current score
ImprovingDirs(h) ==
    {d \in ValidDirs(h) :
        ScoreMoved(hospitals, houses, h, DirCell(h, d))
            < CalculateScore(hospitals, houses)}

\* The valid directions of h with the least score among the improving ones
BestDirs(h) ==
    {d \in ImprovingDirs(h) :
        \A e \in ImprovingDirs(h) :
            ScoreMoved(hospitals, houses, h, DirCell(h, d))
                <= ScoreMoved(hospitals, houses, h, DirCell(h, e))}

\* C14: when the scan of hospital old_pos ends, the move about to be
\* committed is the valid candidate of least score, strictly below the
\* score at the start of the scan, and among several of least score the
\* earliest in the enumeration order; there is none if no valid candidate
\* scores strictly lower.
C14_BestCandidateEarliestWins ==
    (pc = "opt_dir" /\ dir = 9) =>
        IF ImprovingDirs(old_pos) = {}
        THEN best_new_pos = None
        ELSE best_new_pos =
                DirCell(old_pos, CHOOSE d \in BestDirs(old_pos) :
                                    \A e \in BestDirs(old_pos) : d <= e)

\* A scan has ended with a move to commit while two candidates share the
\* least score and a valid candidate that does not improve precedes them.
C14_Witness ==
    /\ pc = "opt_dir"
    /\ dir = 9
    /\ best_new_pos # None
    /\ Cardinality(BestDirs(old_pos)) >= 2
    /\ \E d \in ValidDirs(old_pos) \ ImprovingDirs(old_pos) :
          \A e \in BestDirs(old_pos) : d < e

\* C15: throughout a call of optimize_distribution, and so on every
\* configuration whose score it evaluates (the tentative placement of the
\* scanned hospital at a candidate), there are exactly num_hospitals
\* hospitals, at distinct coordinates and pairwise at Manhattan distance
\* >= MIN_HOSPITAL_DISTANCE; the candidate being scored is one of them.
C15_EvaluatedConfigurationsSpaced ==
    InOptimize =>
        /\ Size(hospitals) = num_hospitals
        /\ DistinctCoordinates(hospitals)
        /\ \A a \in BagToSet(hospitals), b \in BagToSet(hospitals) :
              a # b => distance_to(a, b) >= MIN_HOSPITAL_DISTANCE
        /\ pc = "opt_placed" => BagIn(new_pos, hospitals)

\* A hospital that stood exactly MIN_HOSPITAL_DISTANCE from another one is
\* tentatively placed on a neighbouring cell, about to be scored.
C15_Witness ==
    /\ pc = "opt_placed"
    /\ new_pos # old_pos
    /\ \E b \in BagToSet(hospitals) :
          /\ b # new_pos
          /\ distance_to(old_pos, b) = MIN_HOSPITAL_DISTANCE

\* C17: at every step of a call of optimize_distribution, tentative
\* placements and reverts included, and when it has returned, the houses
\* are those of before the call, the cells holding 1 are the same cells,
\* and no hospital stands on a house's coordinate.
C17_HousesUntouched ==
    (InOptimize \/ pc = "returned") =>
        /\ houses = pre.houses
        /\ \A c \in GridCells : grid[c] = 1 <=> pre.grid[c] = 1
        /\ \A c \in BagToSet(houses) : grid[c] = 1
        /\ BagToSet(hospitals) \cap BagToSet(houses) = {}

\* A hospital with a house on a neighbouring cell is tentatively placed on
\* another cell, about to be scored.
C17_Witness ==
    /\ pc = "opt_placed"
    /\ new_pos # old_pos
    /\ \E k \in BagToSet(houses) :
          /\ Abs(k[1] - old_pos[1]) <= 1
          /\ Abs(k[2] - old_pos[2]) <= 1

\* A sweep is under way or has just ended
InSweep ==
    \/ pc \in {"opt_for", "opt_dir", "opt_placed"}
    \/ pc = "opt_while" /\ last_sweep # "none"

\* C16: within one sweep every hospital present at its start is scanned
\* exactly once (never twice while the sweep runs, and once when it has
\* ended) and relocated at most once, to a cell at most one row and one
\* column from where it stood at the start of the sweep; a coordinate a
\* hospital was relocated to during the sweep is neither scanned nor left
\* to be scanned in that sweep.
C16_SweepScansEachOnce ==
    InSweep =>
        /\ \A h \in BagToSet(scanned) : scanned[h] = 1
        /\ scanned (+) todo = sweep_start
        /\ pc = "opt_while" => scanned = sweep_start
        /\ \A m \in moved :
              /\ BagIn(m[1], scanned)
              /\ Abs(m[2][1] - m[1][1]) <= 1
              /\ Abs(m[2][2] - m[1][2]) <= 1
              /\ ~BagIn(m[2], scanned)
              /\ ~BagIn(m[2], todo)
              /\ \A n \in moved : n[1] = m[1] => n = m

\* A sweep over two hospitals has ended after relocating both of them.
C16_Witness ==
    /\ pc = "opt_while"
    /\ last_sweep = "moved"
    /\ Size(sweep_start) = 2
    /\ scanned = sweep_start
    /\ Cardinality(moved) = 2

\* C18: inside optimize_distribution best_score is the score of the
\* committed state at the start of every sweep, at the start of every
\* hospital's scan and at the return (the loop test, which is both the
\* start of a sweep and the return point); and a relocation about to be
\* committed has the score best_score, strictly below the score of the
\* committed state, so every committed relocation lowers the score.
C18_BestScoreIsModelScore ==
    /\ pc \in {"opt_while", "opt_for"} =>
          best_score = CalculateScore(hospitals, houses)
    /\ (pc = "opt_dir" /\ dir = 0) =>
          best_score = CalculateScore(hospitals, houses)
    /\ (pc = "opt_dir" /\ dir = 9 /\ best_new_pos # None) =>
          /\ best_score = ScoreMoved(hospitals, houses, old_pos, best_new_pos)
          /\ best_score < CalculateScore(hospitals, houses)

\* The scan of a hospital begins after another hospital was relocated
\* earlier in the same sweep, the score being finite and lower than when
\* the call began.
C18_Witness ==
    /\ pc = "opt_dir"
    /\ dir = 0
    /\ moved # {}
    /\ best_score < CalculateScore(pre.hospitals, pre.houses)
    /\ CalculateScore(pre.hospitals, pre.houses) < Inf

\* The grid admits num_hospitals hospitals pairwise at the minimum spacing
\* together with num_houses houses on distinct other cells
Feasible ==
    /\ rows > 0
    /\ cols > 0
    /\ ~Infeasible
    /\ num_hospitals + num_houses <= rows * cols

\* C19: on a grid that admits a full arrangement, the hospital loop of
\* initialize_random_positions never holds fewer than num_hospitals
\* hospitals with no cell left that _is_valid_hospital_position accepts
\* (so that fair sampling ends the loop).
C19_GreedyPlacementNeverStuck ==
    (/\ pc \in {"place_hospitals", "sample_hospital"}
     /\ Feasible
     /\ Size(hospitals) < num_hospitals) =>
        \E c \in GridCells : IsValidHospitalPosition(grid, hospitals, c)

====
